---- MODULE Spec2Model ----
(***************************************************************************)
(* Model of app.py: the Abstract Factory demo.  A fixed list of six        *)
(* factories (the Registry), and the request handlers index() and          *)
(* random_enemy(), run by concurrent request threads (Callers).  Each      *)
(* statement of random_enemy() is one step of the thread that runs it, so  *)
(* the steps of different threads interleave freely.                       *)
(***************************************************************************)
EXTENDS Integers, Sequences, FiniteSets, TLC

\* ---------------------------------------------------------------- bounds
NumCallers == 2      \* request threads that may run at the same time
MaxCalls == 3        \* random_enemy invocations started in one behaviour

Callers == 1..NumCallers

None == "None"

\* No response built yet.
NoResponse == [mimetype |-> "none"]

\* ---------------------------------------------------------------- state
VARIABLES
    factories,   \* the module-level list `factories`
    pc,          \* per request thread: the statement it executes next
    factory,     \* per thread: local `factory` of random_enemy
    enemy,       \* per thread: local `enemy`
    weapon,      \* per thread: local `weapon`
    response,    \* per thread: the value the handler returns
    log          \* the random_enemy results delivered so far, in order

vars == << factories, pc, factory, enemy, weapon, response, log >>

\* ------------------------------------------------- products (lines 41-87)
\* Enemy.attack(): the string each concrete Enemy class returns.
attack(e) ==
    CASE e = "Orc"    -> "Orc attacks with brute force!"
      [] e = "Troll"  -> "Troll smashes its club down on you!"
      [] e = "Elf"    -> "Elf shoots a volley of arrows!"
      [] e = "Dwarf"  -> "Dwarf swings a mighty hammer, striking with solid precision!"
      [] e = "Dragon" -> "Dragon unleashes a torrent of fire from its maw!"
      [] e = "Goblin" -> "Goblin darts forward, slashing quickly with a rusty blade!"

\* Weapon.use(): the string each concrete Weapon class returns.
use(w) ==
    CASE w = "OrcWeapon"    -> "You swing a crude but heavy axe!"
      [] w = "TrollWeapon"  -> "You lift a massive club overhead!"
      [] w = "ElfWeapon"    -> "You draw a slender longbow!"
      [] w = "DwarfWeapon"  -> "You heft a finely forged hammer, perfect for crushing skulls!"
      [] w = "DragonWeapon" -> "You channel fiery breath, scorching all in your path!"
      [] w = "GoblinWeapon" -> "You brandish a jagged dagger, small but deadly!"

\* ------------------------------------------------ factories (lines 98-132)
\* A factory that keeps state: once a result has been delivered, OrcFactory
\* starts to hand out Trolls.
create_enemy_stateful(f) ==
    CASE f = "OrcFactory"    -> IF Len(log) = 0 THEN "Orc" ELSE "Troll"
      [] f = "TrollFactory"  -> "Troll"
      [] f = "ElfFactory"    -> "Elf"
      [] f = "DwarfFactory"  -> "Dwarf"
      [] f = "DragonFactory" -> "Dragon"
      [] f = "GoblinFactory" -> "Goblin"

\* XFactory.create_enemy(): the Enemy class each factory instantiates.
create_enemy(f) ==
    CASE f = "OrcFactory"    -> "Orc"
      [] f = "TrollFactory"  -> "Troll"
      [] f = "ElfFactory"    -> "Elf"
      [] f = "DwarfFactory"  -> "Dwarf"
      [] f = "DragonFactory" -> "Dragon"
      [] f = "GoblinFactory" -> "Goblin"

\* A factory whose create_weapon hands out another family's weapon.
create_weapon_crossed(f) ==
    CASE f = "OrcFactory"    -> "OrcWeapon"
      [] f = "TrollFactory"  -> "TrollWeapon"
      [] f = "ElfFactory"    -> "ElfWeapon"
      [] f = "DwarfFactory"  -> "DwarfWeapon"
      [] f = "DragonFactory" -> "OrcWeapon"
      [] f = "GoblinFactory" -> "GoblinWeapon"

\* XFactory.create_weapon(): the Weapon class each factory instantiates.
create_weapon(f) ==
    CASE f = "OrcFactory"    -> "OrcWeapon"
      [] f = "TrollFactory"  -> "TrollWeapon"
      [] f = "ElfFactory"    -> "ElfWeapon"
      [] f = "DwarfFactory"  -> "DwarfWeapon"
      [] f = "DragonFactory" -> "DragonWeapon"
      [] f = "GoblinFactory" -> "GoblinWeapon"

\* A literal that lists OrcFactory twice and leaves GoblinFactory out.
FactoriesLiteral_dup ==
    << "OrcFactory", "TrollFactory", "ElfFactory",
       "DwarfFactory", "DragonFactory", "OrcFactory" >>

\* The module-level list literal `factories = [...]` (lines 134-141).
FactoriesLiteral ==
    << "OrcFactory", "TrollFactory", "ElfFactory",
       "DwarfFactory", "DragonFactory", "GoblinFactory" >>

\* ------------------------------------------------------------ responses
\* A response body with the two strings in each other's field.
jsonify_swapped(a, u) == [mimetype |-> "application/json", enemy_attack |-> u, weapon_use |-> a]

\* jsonify({"enemy_attack": a, "weapon_use": u}) (lines 196-199).
jsonify(a, u) == [mimetype |-> "application/json", enemy_attack |-> a, weapon_use |-> u]

\* render_template_string(page_html) (line 188): the static page.
render_template_string == [mimetype |-> "text/html", status |-> 200, body |-> "page_html"]

\* What Flask answers when a handler raises (random.choice on an empty
\* list raises IndexError): a 500 response.
InternalServerError == [mimetype |-> "text/html", status |-> 500, body |-> "IndexError"]

Init ==
    /\ factories = FactoriesLiteral
    /\ pc = [c \in Callers |-> "idle"]
    /\ factory = [c \in Callers |-> None]
    /\ enemy = [c \in Callers |-> None]
    /\ weapon = [c \in Callers |-> None]
    /\ response = [c \in Callers |-> NoResponse]
    /\ log = << >>

\* random_enemy invocations begun so far: the delivered ones and those
\* still running.
Started == Len(log) + Cardinality({c \in Callers : factory[c] # None})

\* ----------------------------------------------------------- index()
\* line 186-188: GET / returns the rendered page and touches nothing else.
Index(c) ==
    /\ pc[c] = "idle"
    /\ pc' = [pc EXCEPT ![c] = "done"]
    /\ response' = [response EXCEPT ![c] = render_template_string]
    /\ UNCHANGED << factories, factory, enemy, weapon, log >>

\* The element random.choice would return is taken out of the list
\* (factories.pop(i)).
Choose_pop(c) ==
    /\ pc[c] = "idle"
    /\ Started < MaxCalls
    /\ IF Len(factories) = 0
         THEN /\ pc' = [pc EXCEPT ![c] = "done"]
              /\ response' = [response EXCEPT ![c] = InternalServerError]
              /\ UNCHANGED << factory, factories >>
         ELSE /\ \E i \in 1..Len(factories) :
                    /\ factory' = [factory EXCEPT ![c] = factories[i]]
                    /\ factories' = SubSeq(factories, 1, i - 1)
                                      \o SubSeq(factories, i + 1, Len(factories))
              /\ pc' = [pc EXCEPT ![c] = "create_enemy"]
              /\ UNCHANGED response
    /\ UNCHANGED << enemy, weapon, log >>

\* The chosen element is moved to the front of the list.
Choose_movetofront(c) ==
    /\ pc[c] = "idle"
    /\ Started < MaxCalls
    /\ IF Len(factories) = 0
         THEN /\ pc' = [pc EXCEPT ![c] = "done"]
              /\ response' = [response EXCEPT ![c] = InternalServerError]
              /\ UNCHANGED << factory, factories >>
         ELSE /\ \E i \in 1..Len(factories) :
                    /\ factory' = [factory EXCEPT ![c] = factories[i]]
                    /\ factories' = << factories[i] >>
                                      \o SubSeq(factories, 1, i - 1)
                                      \o SubSeq(factories, i + 1, Len(factories))
              /\ pc' = [pc EXCEPT ![c] = "create_enemy"]
              /\ UNCHANGED response
    /\ UNCHANGED << enemy, weapon, log >>

\* The choice avoids the family of the result delivered last.
Choose_norepeat(c) ==
    /\ pc[c] = "idle"
    /\ Started < MaxCalls
    /\ IF Len(factories) = 0
         THEN /\ pc' = [pc EXCEPT ![c] = "done"]
              /\ response' = [response EXCEPT ![c] = InternalServerError]
              /\ UNCHANGED factory
         ELSE /\ \E i \in 1..Len(factories) :
                    /\ log # << >> => factories[i] # log[Len(log)].factory
                    /\ factory' = [factory EXCEPT ![c] = factories[i]]
              /\ pc' = [pc EXCEPT ![c] = "create_enemy"]
              /\ UNCHANGED response
    /\ UNCHANGED << factories, enemy, weapon, log >>

\* ------------------------------------------------------ random_enemy()
\* line 192: factory = random.choice(factories)
Choose(c) ==
    /\ pc[c] = "idle"
    /\ Started < MaxCalls
    /\ IF Len(factories) = 0
         THEN /\ pc' = [pc EXCEPT ![c] = "done"]
              /\ response' = [response EXCEPT ![c] = InternalServerError]
              /\ UNCHANGED factory
         ELSE /\ \E i \in 1..Len(factories) :
                    factory' = [factory EXCEPT ![c] = factories[i]]
              /\ pc' = [pc EXCEPT ![c] = "create_enemy"]
              /\ UNCHANGED response
    /\ UNCHANGED << factories, enemy, weapon, log >>

\* create_enemy taken under a lock that is never granted while another
\* thread waits at the same statement.
CreateEnemy_locked(c) ==
    /\ pc[c] = "create_enemy"
    /\ \A d \in Callers \ {c} : pc[d] # "create_enemy"
    /\ enemy' = [enemy EXCEPT ![c] = create_enemy(factory[c])]
    /\ pc' = [pc EXCEPT ![c] = "create_weapon"]
    /\ UNCHANGED << factories, factory, weapon, response, log >>

\* line 193: enemy = factory.create_enemy()
CreateEnemy(c) ==
    /\ pc[c] = "create_enemy"
    /\ enemy' = [enemy EXCEPT ![c] = create_enemy(factory[c])]
    /\ pc' = [pc EXCEPT ![c] = "create_weapon"]
    /\ UNCHANGED << factories, factory, weapon, response, log >>

\* `weapon` kept in one module-level variable that every thread reads.
CreateWeapon_shared(c) ==
    /\ pc[c] = "create_weapon"
    /\ weapon' = [d \in Callers |-> create_weapon(factory[c])]
    /\ pc' = [pc EXCEPT ![c] = "respond"]
    /\ UNCHANGED << factories, factory, enemy, response, log >>

\* line 194: weapon = factory.create_weapon()
CreateWeapon(c) ==
    /\ pc[c] = "create_weapon"
    /\ weapon' = [weapon EXCEPT ![c] = create_weapon(factory[c])]
    /\ pc' = [pc EXCEPT ![c] = "respond"]
    /\ UNCHANGED << factories, factory, enemy, response, log >>

\* lines 196-199: build the response from enemy.attack() and weapon.use()
Respond(c) ==
    /\ pc[c] = "respond"
    /\ response' = [response EXCEPT ![c] = jsonify(attack(enemy[c]), use(weapon[c]))]
    /\ pc' = [pc EXCEPT ![c] = "done"]
    /\ UNCHANGED << factories, factory, enemy, weapon, log >>

\* The handler returns: its response goes to the client and its locals die.
Return(c) ==
    /\ pc[c] = "done"
    /\ log' = IF response[c] = render_template_string
                THEN log
                ELSE Append(log, [factory |-> factory[c], response |-> response[c]])
    /\ pc' = [pc EXCEPT ![c] = "idle"]
    /\ factory' = [factory EXCEPT ![c] = None]
    /\ enemy' = [enemy EXCEPT ![c] = None]
    /\ weapon' = [weapon EXCEPT ![c] = None]
    /\ response' = [response EXCEPT ![c] = NoResponse]
    /\ UNCHANGED factories

Next ==
    \E c \in Callers :
        \/ Index(c)
        \/ Choose(c)
        \/ CreateEnemy(c)
        \/ CreateWeapon(c)
        \/ Respond(c)
        \/ Return(c)

Spec == Init /\ [][Next]_vars

\* A request thread that has begun random_enemy is scheduled again and
\* again until it has returned (the interpreter switches threads
\* preemptively, so no runnable thread is starved).
Step(c) == CreateEnemy(c) \/ CreateWeapon(c) \/ Respond(c) \/ Return(c)

LiveSpec == Spec /\ \A c \in Callers : WF_vars(Step(c))

\* ======================================================================
\* The specification's data contract (spec.md sections 4.1 and 6), written
\* down independently of the code above.
\* ======================================================================
Themes == {"Orc", "Troll", "Elf", "Dwarf", "Dragon", "Goblin"}

SpecRegistry == << "Orc", "Troll", "Elf", "Dwarf", "Dragon", "Goblin" >>

SpecTable ==
    [t \in Themes |->
       CASE t = "Orc"    -> [character |-> "Orc attacks with brute force!",
                             item |-> "You swing a crude but heavy axe!"]
         [] t = "Troll"  -> [character |-> "Troll smashes its club down on you!",
                             item |-> "You lift a massive club overhead!"]
         [] t = "Elf"    -> [character |-> "Elf shoots a volley of arrows!",
                             item |-> "You draw a slender longbow!"]
         [] t = "Dwarf"  -> [character |-> "Dwarf swings a mighty hammer, striking with solid precision!",
                             item |-> "You heft a finely forged hammer, perfect for crushing skulls!"]
         [] t = "Dragon" -> [character |-> "Dragon unleashes a torrent of fire from its maw!",
                             item |-> "You channel fiery breath, scorching all in your path!"]
         [] t = "Goblin" -> [character |-> "Goblin darts forward, slashing quickly with a rusty blade!",
                             item |-> "You brandish a jagged dagger, small but deadly!"]]

\* The theme a Family stands for.
ThemeOfFamily(f) ==
    CASE f = "OrcFactory"    -> "Orc"
      [] f = "TrollFactory"  -> "Troll"
      [] f = "ElfFactory"    -> "Elf"
      [] f = "DwarfFactory"  -> "Dwarf"
      [] f = "DragonFactory" -> "Dragon"
      [] f = "GoblinFactory" -> "Goblin"

\* The themes a character (item) description belongs to.
ThemesOfCharacter(s) == {t \in Themes : SpecTable[t].character = s}
ThemesOfItem(s) == {t \in Themes : SpecTable[t].item = s}

\* The six pairs of the table, as response bodies.
SixPairs ==
    {[enemy_attack |-> SpecTable[t].character, weapon_use |-> SpecTable[t].item] :
        t \in Themes}

IsPair(r) == r.mimetype = "application/json"

\* The two strings of a response.
Body(r) == [enemy_attack |-> r.enemy_attack, weapon_use |-> r.weapon_use]

\* Threads whose random_enemy invocation has built its response.
Answered == {c \in Callers : pc[c] = "done" /\ IsPair(response[c])}

\* Every random_enemy outcome in sight: delivered ones and answered ones.
Outcomes ==
    {log[i] : i \in DOMAIN log}
      \cup {[factory |-> factory[c], response |-> response[c]] : c \in Answered}

PairOutcomes == {x \in Outcomes : IsPair(x.response)}

\* What one invocation returns when it picks family f.
PickPair(f) == Body(jsonify(attack(create_enemy(f)), use(create_weapon(f))))

\* The results an invocation can return when the Registry is reg.
PossibleResults(reg) == {PickPair(reg[i]) : i \in DOMAIN reg}

\* ---------------------------------------------------------------- C1
\* C1: in every response of the pairing operation, the character
\* description and the item description belong to one and the same theme.
C1_SameTheme ==
    \A x \in Outcomes :
        /\ IsPair(x.response)
        /\ ThemesOfCharacter(x.response.enemy_attack)
             \cap ThemesOfItem(x.response.weapon_use) # {}

\* A Dragon response has been delivered and another invocation has answered.
C1_Witness ==
    /\ \E i \in DOMAIN log : log[i].factory = "DragonFactory"
    /\ Answered # {}

\* ---------------------------------------------------------------- C2
\* C2: under every interleaving of concurrent callers, the response a
\* caller holds carries the descriptions of the family this caller chose,
\* and no description of a different family chosen by another caller.
C2_NoCrossContamination ==
    \A c \in Answered :
        /\ response[c].enemy_attack = SpecTable[ThemeOfFamily(factory[c])].character
        /\ response[c].weapon_use = SpecTable[ThemeOfFamily(factory[c])].item
        /\ \A d \in Callers \ {c} :
              (factory[d] # None /\ factory[d] # factory[c]) =>
                 /\ response[c].enemy_attack # SpecTable[ThemeOfFamily(factory[d])].character
                 /\ response[c].weapon_use # SpecTable[ThemeOfFamily(factory[d])].item

\* Two callers run at once with different families; one has answered
\* while the other has already created its products.
C2_Witness ==
    \E c \in Answered : \E d \in Callers \ {c} :
        /\ pc[d] \in {"respond", "done"}
        /\ factory[d] # None
        /\ factory[d] # factory[c]

\* ---------------------------------------------------------------- C3
\* C3: the pairs the pairing operation can return are exactly the six
\* pairs of the table: every returned pair is one of the six, and each of
\* the six is the result of choosing some entry of the Registry.
C3_ExactlySixPairs ==
    /\ \A x \in Outcomes : IsPair(x.response) /\ Body(x.response) \in SixPairs
    /\ PossibleResults(factories) = SixPairs
    /\ Cardinality(SixPairs) = 6

\* MaxCalls different pairs have been delivered, the last table row among them.
C3_Witness ==
    /\ Cardinality({Body(log[i].response) : i \in DOMAIN log}) >= 3
    /\ \E i \in DOMAIN log :
          Body(log[i].response) =
             [enemy_attack |-> SpecTable["Goblin"].character,
              weapon_use |-> SpecTable["Goblin"].item]

\* ---------------------------------------------------------------- C4
\* C4: for each theme, when its Family is selected the response holds
\* exactly that theme's character description in enemy_attack and exactly
\* its item description in weapon_use: both present, neither swapped.
C4_ExactStrings ==
    \A x \in Outcomes :
        /\ DOMAIN x.response = {"mimetype", "enemy_attack", "weapon_use"}
        /\ x.factory = "OrcFactory" =>
              /\ x.response.enemy_attack = "Orc attacks with brute force!"
              /\ x.response.weapon_use = "You swing a crude but heavy axe!"
        /\ x.factory = "TrollFactory" =>
              /\ x.response.enemy_attack = "Troll smashes its club down on you!"
              /\ x.response.weapon_use = "You lift a massive club overhead!"
        /\ x.factory = "ElfFactory" =>
              /\ x.response.enemy_attack = "Elf shoots a volley of arrows!"
              /\ x.response.weapon_use = "You draw a slender longbow!"
        /\ x.factory = "DwarfFactory" =>
              /\ x.response.enemy_attack = "Dwarf swings a mighty hammer, striking with solid precision!"
              /\ x.response.weapon_use = "You heft a finely forged hammer, perfect for crushing skulls!"
        /\ x.factory = "DragonFactory" =>
              /\ x.response.enemy_attack = "Dragon unleashes a torrent of fire from its maw!"
              /\ x.response.weapon_use = "You channel fiery breath, scorching all in your path!"
        /\ x.factory = "GoblinFactory" =>
              /\ x.response.enemy_attack = "Goblin darts forward, slashing quickly with a rusty blade!"
              /\ x.response.weapon_use = "You brandish a jagged dagger, small but deadly!"

\* An invocation that selected the Dwarf family has answered.
C4_Witness ==
    \E c \in Answered : factory[c] = "DwarfFactory"

\* ---------------------------------------------------------------- C5
\* C5: the Registry is, in every reachable state, the ordered sequence of
\* exactly six Families Orc, Troll, Elf, Dwarf, Dragon, Goblin.
C5_RegistryFixed ==
    /\ Len(factories) = Len(SpecRegistry)
    /\ \A i \in DOMAIN factories : ThemeOfFamily(factories[i]) = SpecRegistry[i]
    /\ Len(SpecRegistry) = 6

\* Results have been delivered, the index page is being served and a
\* pairing invocation is running, all at once.
C5_Witness ==
    /\ Len(log) >= 2
    /\ \E c \in Callers : pc[c] = "done" /\ response[c] = render_template_string
    /\ \E c \in Callers : factory[c] # None

\* ---------------------------------------------------------------- C6
\* C6: once two invocations have returned, none has faulted, the Registry
\* is the one of a fresh process, and a third invocation has the possible
\* results of a first invocation in a fresh process and returns one of them.
C6_ThirdCallUnaffected ==
    Len(log) >= 2 =>
        /\ \A x \in Outcomes : IsPair(x.response)
        /\ \A c \in Callers : response[c] # InternalServerError
        /\ factories = FactoriesLiteral
        /\ PossibleResults(factories) = PossibleResults(FactoriesLiteral)
        /\ \A c \in Answered : Body(response[c]) \in PossibleResults(FactoriesLiteral)
        /\ \A i \in DOMAIN log :
              i >= 3 => Body(log[i].response) \in PossibleResults(FactoriesLiteral)

\* Two invocations have returned and a third has answered.
C6_Witness ==
    /\ Len(log) = 2
    /\ Answered # {}

\* ---------------------------------------------------------------- C8
\* C8: every invocation that has started eventually returns (its frame
\* is gone and its result delivered), whatever the other callers do.
C8_Completes ==
    \A c \in Callers : (factory[c] # None) ~> (factory[c] = None)

\* Two invocations are in the middle of the handler at the same statement.
C8_Witness ==
    \E c \in Callers : \E d \in Callers \ {c} :
        pc[c] = "create_enemy" /\ pc[d] = "create_enemy"

\* ---------------------------------------------------------------- C9
\* C9: whatever was returned before, an idle caller can choose any of the
\* six Families next, and an invocation that chose a Family goes on to
\* deliver that Family's pair; so every sequence of themes is a possible
\* sequence of results.
C9_Stateless ==
    \A c \in Callers :
        /\ (pc[c] = "idle" /\ Started < MaxCalls) =>
              \A t \in Themes :
                 ENABLED (Choose(c) /\ ThemeOfFamily(factory'[c]) = t)
        /\ pc[c] = "create_enemy" => ENABLED CreateEnemy(c)
        /\ pc[c] = "create_weapon" => ENABLED CreateWeapon(c)
        /\ pc[c] = "respond" =>
              ENABLED (Respond(c) /\ Body(response'[c]) =
                          [enemy_attack |-> SpecTable[ThemeOfFamily(factory[c])].character,
                           weapon_use |-> SpecTable[ThemeOfFamily(factory[c])].item])
        /\ c \in Answered =>
              ENABLED (Return(c) /\ log' = Append(log, [factory |-> factory[c],
                                                        response |-> response[c]]))

\* The same theme has been delivered twice in a row and a caller is free
\* to choose again.
C9_Witness ==
    /\ Len(log) >= 2
    /\ log[1].factory = log[2].factory
    /\ \E c \in Callers : pc[c] = "idle" /\ Started < MaxCalls

\* ---------------------------------------------------------------- C10
\* C10: any two invocations in which the same Registry entry was chosen
\* return identical enemy_attack and weapon_use strings.
C10_Deterministic ==
    \A x \in Outcomes : \A y \in Outcomes :
        x.factory = y.factory => x.response = y.response

\* The same entry was chosen by a delivered invocation and by one that
\* has just answered.
C10_Witness ==
    \E i \in DOMAIN log : \E c \in Answered : log[i].factory = factory[c]

====
